---- MODULE Spec2Model ----
(***************************************************************************)
(* The data pipeline of uber_dashboard.py: load_data() reads and cleans    *)
(* ncr_ride_bookings.csv, the sidebar widgets give a filter configuration, *)
(* the mask selects filtered_df, and the KPI section and the three tabs    *)
(* reduce filtered_df to the tables and scalars that are displayed.        *)
(*                                                                         *)
(* A csv cell is a string.  A Timestamp is a number: a Date is the day of  *)
(* January 2024 (2024-01-01, a Monday, is 1) and a DateTime is that day    *)
(* times 24 plus the hour.  A float is an integer, a quotient of floats is *)
(* kept as a fraction, and the missing values NaN / NaT are -1 (no number  *)
(* of the data is negative).  A missing object cell is the string NA.      *)
(*                                                                         *)
(* Left out: the columns no table reads (Month, Ride Distance, the two     *)
(* ratings, Avg CTAT), the "Data Quality" metric, the drawing of the       *)
(* charts, and the `except Exception` branch of load_data (a csv that is   *)
(* there but cannot be read).  The rows of cancel_by_vehicle are a set:    *)
(* their order is not modelled.                                            *)
(***************************************************************************)
EXTENDS Integers, Sequences, FiniteSets, TLC

VARIABLES
    file,               \* the csv on disk: [exists, rows]
    pc,                 \* position of the script run
    df,                 \* result of load_data(): [tag |-> "None"] or a DataFrame
    messages,           \* st.error / st.info texts shown so far
    date_range,         \* <<lo, hi>> of the date_input widget
    selected_vehicles,  \* the vehicle multiselect
    status_filter,      \* the status multiselect
    filtered_df,        \* df[mask]
    total_rev, avg_order_value, total_rides, completion_rate, avg_vtat,
    daily_data, veh_metrics,
    heatmap_pivot, hourly_profile, weekend_data,
    all_reasons, reasons, cancel_by_vehicle

vars == <<file, pc, df, messages, date_range, selected_vehicles, status_filter,
          filtered_df, total_rev, avg_order_value, total_rides, completion_rate,
          avg_vtat, daily_data, veh_metrics, heatmap_pivot, hourly_profile,
          weekend_data, all_reasons, reasons, cancel_by_vehicle>>

(***************************************************************************)
(* Bounds of the model.                                                    *)
(***************************************************************************)
\* rows of the csv in the general data sets
MaxRows == 2
\* days of the calendar the daily-series data sets range over
MaxDays == 9
\* rows of the cancellation-reason data sets
MaxReasonRows == 5

(***************************************************************************)
(* Missing values and floats.                                              *)
(***************************************************************************)
NaN == -1
NaT == -1
NA == "NaN"

Frac(n, d) == [kind |-> "num", num |-> n, den |-> d]
FNaN == [kind |-> "nan", num |-> 0, den |-> 0]
FInf == [kind |-> "inf", num |-> 0, den |-> 0]
\* float division of pandas / numpy: x / 0 is inf, 0 / 0 is nan, nothing is raised
Div(a, b) == IF b = 0 THEN (IF a = 0 THEN FNaN ELSE FInf) ELSE Frac(a, b)
FEq(x, y) == /\ x.kind = y.kind
             /\ x.kind = "num" => x.num * y.den = y.num * x.den

(***************************************************************************)
(* The csv cells and what the parsers of load_data make of them.           *)
(***************************************************************************)
DateCell(n) == IF n < 10 THEN "2024-01-0" \o ToString(n) ELSE "2024-01-" \o ToString(n)
TimeCell(h) == (IF h < 10 THEN "0" ELSE "") \o ToString(h) \o ":00:00"
NumCell(v) == ToString(v)

JanuaryDays == 1..31
Hours == 0..23
Numbers == 0..20

\* pd.read_csv: an empty cell of an object column is a missing value
read_cell(s) == IF s = "" THEN NA ELSE s

\* pd.to_datetime(df['Date'], errors='coerce')
to_datetime(s) ==
    IF \E n \in JanuaryDays : DateCell(n) = s
    THEN CHOOSE n \in JanuaryDays : DateCell(n) = s
    ELSE NaT

\* pd.to_datetime(Date.astype(str) + ' ' + Time.astype(str), errors='coerce')
to_datetime_combined(date, time) ==
    IF date # NaT /\ \E h \in Hours : TimeCell(h) = time
    THEN date * 24 + (CHOOSE h \in Hours : TimeCell(h) = time)
    ELSE NaT

\* pd.to_numeric(col, errors='coerce')
to_numeric(s) ==
    IF \E v \in Numbers : NumCell(v) = s
    THEN CHOOSE v \in Numbers : NumCell(v) = s
    ELSE NaN

day_order == <<"Monday", "Tuesday", "Wednesday", "Thursday", "Friday",
               "Saturday", "Sunday">>

\* .dt.hour, .dt.dayofweek, .dt.day_name() of a DateTime; NaT gives a missing value
dt_hour(dt) == IF dt = NaT THEN NaN ELSE dt % 24
dt_dayofweek(dt) == IF dt = NaT THEN NaN ELSE ((dt \div 24) - 1) % 7
dt_day_name(dt) == IF dt = NaT THEN NA ELSE day_order[dt_dayofweek(dt) + 1]
\* df['DateTime'].dt.dayofweek >= 5: a comparison with NaN is False
is_weekend_of(dt) == IF dt_dayofweek(dt) = NaN THEN FALSE ELSE dt_dayofweek(dt) >= 5

\* one row of the DataFrame load_data returns, from row i of the csv
load_row(raw, i) ==
    LET date == to_datetime(raw.Date)
        dt == to_datetime_combined(date, raw.Time)
    IN [idx |-> i,
        BookingID |-> read_cell(raw.BookingID),
        Date |-> date,
        DateTime |-> dt,
        Hour |-> dt_hour(dt),
        DayOfWeek |-> dt_day_name(dt),
        is_weekend |-> is_weekend_of(dt),
        VehicleType |-> read_cell(raw.VehicleType),
        BookingStatus |-> read_cell(raw.BookingStatus),
        BookingValue |-> to_numeric(raw.BookingValue),
        AvgVTAT |-> to_numeric(raw.AvgVTAT),
        ReasonCustomer |-> read_cell(raw.ReasonCustomer),
        DriverReason |-> read_cell(raw.DriverReason)]

None == [tag |-> "None"]
DataFrame(rows) == [tag |-> "DataFrame", rows |-> rows]

\* load_data that gives an empty DataFrame for a missing file
load_data_default(f) ==
    [result |-> DataFrame(IF f.exists
                          THEN [i \in 1..Len(f.rows) |-> load_row(f.rows[i], i)]
                          ELSE <<>>),
     shown |-> <<>>]

\* load_data(): the DataFrame, or None after an st.error when the file is missing
load_data(f) ==
    IF f.exists
    THEN [result |-> DataFrame([i \in 1..Len(f.rows) |-> load_row(f.rows[i], i)]),
          shown |-> <<>>]
    ELSE [result |-> None,
          shown |-> <<"File not found: ncr_ride_bookings.csv",
                      "Please update the file path in the code to match your data location.">>]

(***************************************************************************)
(* Series reductions.                                                      *)
(***************************************************************************)
RECURSIVE SumSeq(_)
SumSeq(s) == IF s = <<>> THEN 0 ELSE Head(s) + SumSeq(Tail(s))

IsNum(v) == v # NaN
NotNA(s) == s # NA

\* the column `name` of the rows, as a sequence
Col(rows, name) == [i \in 1..Len(rows) |-> rows[i][name]]

\* Series.sum(): missing values are skipped, the sum of nothing is 0
series_sum(col) == SumSeq(SelectSeq(col, IsNum))
\* Series.mean(): missing values are skipped, the mean of nothing is NaN
series_mean(col) ==
    LET present == SelectSeq(col, IsNum)
    IN IF present = <<>> THEN FNaN ELSE Frac(SumSeq(present), Len(present))
\* Series.count() of an object column: the number of values that are not missing
series_count(col) == Len(SelectSeq(col, NotNA))

RECURSIVE SortedInts(_)
\* the numbers of a set in ascending order
SortedInts(S) ==
    IF S = {} THEN <<>>
    ELSE LET m == CHOOSE x \in S : \A y \in S : x <= y
         IN <<m>> \o SortedInts(S \ {m})

(***************************************************************************)
(* Sidebar widgets and the mask (lines 192-228).                           *)
(***************************************************************************)
Dates(rows) == {rows[i].Date : i \in 1..Len(rows)} \ {NaT}
min_date(rows) == CHOOSE d \in Dates(rows) : \A e \in Dates(rows) : d <= e
max_date(rows) == CHOOSE d \in Dates(rows) : \A e \in Dates(rows) : d >= e
\* sorted(df[col].dropna().unique().tolist()): the options of a multiselect
vehicle_types(rows) == {rows[i].VehicleType : i \in 1..Len(rows)} \ {NA}
booking_statuses(rows) == {rows[i].BookingStatus : i \in 1..Len(rows)} \ {NA}

\* isin that lets a missing value through
isin_or_missing(x, values) == x \in values \/ x = NA
\* Series.isin(values)
isin(x, values) == x \in values
\* between with the upper comparison strict
between_exclusive(d, lo, hi) == d # NaT /\ d >= lo /\ d < hi
\* (Date >= lo) & (Date <= hi): both comparisons are False for NaT
between(d, lo, hi) == d # NaT /\ d >= lo /\ d <= hi

mask(r, range, vehicles, statuses) ==
    /\ between(r.Date, range[1], range[2])
    /\ isin(r.VehicleType, vehicles)
    /\ isin(r.BookingStatus, statuses)

apply_mask(rows, range, vehicles, statuses) ==
    LET keep(r) == mask(r, range, vehicles, statuses)
    IN SelectSeq(rows, keep)

(***************************************************************************)
(* KPI section (lines 244-249).                                            *)
(***************************************************************************)
IsCompleted(r) == r.BookingStatus = "Completed"

kpi_total_rev(rows) == series_sum(Col(rows, "BookingValue"))
kpi_avg_order_value(rows) == series_mean(Col(rows, "BookingValue"))
kpi_total_rides(rows) == Len(rows)
\* the completion rate without the guard on total_rides
kpi_completion_rate_unguarded(rows) ==
    Div(Len(SelectSeq(rows, IsCompleted)) * 100, Len(rows))
\* (len(completed_rides) / total_rides * 100) if total_rides > 0 else 0
kpi_completion_rate(rows) ==
    IF Len(rows) > 0
    THEN Frac(Len(SelectSeq(rows, IsCompleted)) * 100, Len(rows))
    ELSE Frac(0, 1)
kpi_avg_vtat(rows) == series_mean(Col(rows, "AvgVTAT"))

(***************************************************************************)
(* Tab 1: revenue trend and revenue by vehicle type (lines 294-346).       *)
(***************************************************************************)
\* the rows of a group of groupby(col): the rows with that key, in frame order
GroupRows(rows, key, k) ==
    LET in_group(r) == r[key] = k
    IN SelectSeq(rows, in_group)

\* window of .rolling(window=7, min_periods=1)
Window == 7

RECURSIVE rolling_sum(_, _, _)
\* the sum of the n values of revenue that end at position i
rolling_sum(revenue, i, n) ==
    IF n = 0 \/ i = 0 THEN 0 ELSE revenue[i] + rolling_sum(revenue, i - 1, n - 1)

\* the rolling mean with the sum always divided by the window
rolling_mean_padded(revenue, i) ==
    Frac(rolling_sum(revenue, i, IF i < Window THEN i ELSE Window), Window)

\* Series.rolling(window=Window, min_periods=1).mean() at position i
rolling_mean(revenue, i) ==
    LET n == IF i < Window THEN i ELSE Window
    IN Frac(rolling_sum(revenue, i, n), n)

\* groupby('Date').agg(sum, count).reset_index() with the Revenue_7d column:
\* one row for each key that is not missing, keys ascending
make_daily_data(rows) ==
    LET keys == SortedInts(Dates(rows))
        revenue == [i \in 1..Len(keys) |->
                       series_sum(Col(GroupRows(rows, "Date", keys[i]), "BookingValue"))]
    IN [i \in 1..Len(keys) |->
           [Date |-> keys[i],
            Revenue |-> revenue[i],
            Bookings |-> series_count(Col(GroupRows(rows, "Date", keys[i]), "BookingID")),
            Revenue_7d |-> rolling_mean(revenue, i)]]

RECURSIVE SortByRevenue(_)
\* DataFrame.sort_values('Revenue', ascending=True)
SortByRevenue(S) ==
    IF S = {} THEN <<>>
    ELSE LET m == CHOOSE x \in S : \A y \in S : x.Revenue <= y.Revenue
         IN <<m>> \o SortByRevenue(S \ {m})

\* groupby('Vehicle Type').agg(Revenue=sum, Rides=count), sorted by Revenue
make_veh_metrics(rows) ==
    SortByRevenue({[VehicleType |-> k,
                    Revenue |-> series_sum(Col(GroupRows(rows, "VehicleType", k), "BookingValue")),
                    Rides |-> series_count(Col(GroupRows(rows, "VehicleType", k), "BookingID"))]
                   : k \in vehicle_types(rows)})

(***************************************************************************)
(* Tab 2: demand heatmap, hourly profile, weekday / weekend (lines 401-456)*)
(***************************************************************************)
\* groupby(['DayOfWeek', 'Hour']).size(): rows with a missing key are in no group
heatmap_size(rows, day, hour) ==
    LET in_group(r) == r.DayOfWeek # NA /\ r.Hour # NaN /\ r.DayOfWeek = day /\ r.Hour = hour
    IN Len(SelectSeq(rows, in_group))

\* the hours that are a key of heatmap_data
heatmap_hours(rows) ==
    {rows[i].Hour : i \in {j \in 1..Len(rows) : rows[j].DayOfWeek # NA /\ rows[j].Hour # NaN}}

\* the pivot without .reindex(day_order): only the days that are a key
make_heatmap_pivot_no_reindex(rows) ==
    LET columns == SortedInts(heatmap_hours(rows))
        index == SelectSeq(day_order, LAMBDA d : \E h \in Hours : heatmap_size(rows, d, h) > 0)
    IN [index |-> index,
        columns |-> columns,
        values |-> [i \in 1..Len(index) |-> [j \in 1..Len(columns) |->
                      IF heatmap_size(rows, index[i], columns[j]) > 0
                      THEN heatmap_size(rows, index[i], columns[j])
                      ELSE NaN]]]

\* heatmap_data.pivot(index='DayOfWeek', columns='Hour', values='Bookings')
\*   .reindex(day_order): a (day, hour) without a group holds NaN
make_heatmap_pivot(rows) ==
    LET columns == SortedInts(heatmap_hours(rows))
    IN [index |-> day_order,
        columns |-> columns,
        values |-> [i \in 1..Len(day_order) |-> [j \in 1..Len(columns) |->
                      IF heatmap_size(rows, day_order[i], columns[j]) > 0
                      THEN heatmap_size(rows, day_order[i], columns[j])
                      ELSE NaN]]]

\* groupby('Hour').size().reset_index(name='Bookings')
make_hourly_profile(rows) ==
    LET keys == SortedInts({rows[i].Hour : i \in 1..Len(rows)} \ {NaN})
    IN [i \in 1..Len(keys) |->
           [Hour |-> keys[i], Bookings |-> Len(GroupRows(rows, "Hour", keys[i]))]]

\* groupby('is_weekend').agg(count, sum) with the 'Day Type' column; False sorts first
make_weekend_data(rows) ==
    LET keys == SelectSeq(<<FALSE, TRUE>>,
                          LAMBDA k : \E i \in 1..Len(rows) : rows[i].is_weekend = k)
    IN [i \in 1..Len(keys) |->
           [is_weekend |-> keys[i],
            BookingID |-> series_count(Col(GroupRows(rows, "is_weekend", keys[i]), "BookingID")),
            BookingValue |-> series_sum(Col(GroupRows(rows, "is_weekend", keys[i]), "BookingValue")),
            DayType |-> IF keys[i] THEN "Weekend" ELSE "Weekday"]]

(***************************************************************************)
(* Tab 3: cancellation reasons and cancellation rate (lines 480-541).      *)
(***************************************************************************)
\* the characters of the status labels
Chars(s) ==
    CASE s = "Completed" -> <<"C", "o", "m", "p", "l", "e", "t", "e", "d">>
      [] s = "Incomplete" -> <<"I", "n", "c", "o", "m", "p", "l", "e", "t", "e">>
      [] s = "cancelled" -> <<"c", "a", "n", "c", "e", "l", "l", "e", "d">>
      [] s = "Cancelled by Driver" ->
             <<"C", "a", "n", "c", "e", "l", "l", "e", "d", " ", "b", "y", " ",
               "D", "r", "i", "v", "e", "r">>
      [] s = "Cancelled by Customer" ->
             <<"C", "a", "n", "c", "e", "l", "l", "e", "d", " ", "b", "y", " ",
               "C", "u", "s", "t", "o", "m", "e", "r">>

lower(c) == CASE c = "C" -> "c" [] c = "D" -> "d" [] c = "I" -> "i" [] OTHER -> c

\* Series.str.contains('Cancel', case=False, na=False)
str_contains_cancel(s) ==
    LET pat == <<"C", "a", "n", "c", "e", "l">>
    IN /\ s # NA
       /\ \E i \in 0..(Len(Chars(s)) - Len(pat)) :
              \A j \in 1..Len(pat) : lower(Chars(s)[i + j]) = lower(pat[j])

IsCancelled(r) == str_contains_cancel(r.BookingStatus)

\* the customer reason, or the driver reason where the customer reason is missing
make_all_reasons_coalesce(rows) ==
    LET cancel_df == SelectSeq(rows, IsCancelled)
    IN SelectSeq([i \in 1..Len(cancel_df) |->
                     IF cancel_df[i].ReasonCustomer # NA
                     THEN cancel_df[i].ReasonCustomer
                     ELSE cancel_df[i].DriverReason], NotNA)

\* pd.concat([cancel_df[customer reason].dropna(), cancel_df[driver reason].dropna()])
make_all_reasons(rows) ==
    LET cancel_df == SelectSeq(rows, IsCancelled)
    IN SelectSeq(Col(cancel_df, "ReasonCustomer"), NotNA)
       \o SelectSeq(Col(cancel_df, "DriverReason"), NotNA)

RECURSIVE unique(_)
\* the distinct values of a Series in the order they first occur
unique(s) ==
    IF s = <<>> THEN <<>>
    ELSE <<Head(s)>> \o unique(SelectSeq(Tail(s), LAMBDA y : y # Head(s)))

RECURSIVE sort_desc(_)
\* stable sort of counted values by count, largest first
sort_desc(s) ==
    IF s = <<>> THEN <<>>
    ELSE LET i == CHOOSE i \in 1..Len(s) :
                     /\ \A j \in 1..Len(s) : s[j].count <= s[i].count
                     /\ \A j \in 1..(i - 1) : s[j].count < s[i].count
         IN <<s[i]>> \o sort_desc(SubSeq(s, 1, i - 1) \o SubSeq(s, i + 1, Len(s)))

\* value_counts(sort=False): the counts in the order of first occurrence
value_counts_unsorted(s) ==
    LET u == unique(s)
    IN [i \in 1..Len(u) |->
           [value |-> u[i], count |-> Len(SelectSeq(s, LAMBDA y : y = u[i]))]]

\* Series.value_counts()
value_counts(s) ==
    LET u == unique(s)
    IN sort_desc([i \in 1..Len(u) |->
                    [value |-> u[i], count |-> Len(SelectSeq(s, LAMBDA y : y = u[i]))]])

\* the n of .head(n) for the top cancellation reasons
TopN == 8

\* Series.head(n)
head(s, n) == SubSeq(s, 1, IF Len(s) < n THEN Len(s) ELSE n)

make_reasons(rows) == head(value_counts(make_all_reasons(rows)), TopN)

\* groupby('Vehicle Type').agg(Total=count of Booking ID, Cancelled=...) with the
\* rate column Cancelled / Total * 100; the order of the rows is not modelled
make_cancel_by_vehicle(rows) ==
    {LET g == GroupRows(rows, "VehicleType", k)
         total == series_count(Col(g, "BookingID"))
         cancelled == Len(SelectSeq(g, IsCancelled))
     IN [VehicleType |-> k, Total |-> total, Cancelled |-> cancelled,
         Rate |-> Div(cancelled * 100, total)]
     : k \in vehicle_types(rows)}

(***************************************************************************)
(* The script run.  Streamlit runs the script from the top on every        *)
(* interaction; load_data() is the first step of each run.                 *)
(***************************************************************************)
Unset == <<>>

LoadData ==
    /\ pc = "load"
    /\ LET r == load_data(file)
       IN /\ df' = r.result
          /\ messages' = messages \o r.shown
          /\ pc' = IF r.result.tag = "None" THEN "error_state" ELSE "sidebar"
    /\ UNCHANGED <<file, date_range, selected_vehicles, status_filter, filtered_df,
                   total_rev, avg_order_value, total_rides, completion_rate, avg_vtat,
                   daily_data, veh_metrics, heatmap_pivot, hourly_profile,
                   weekend_data, all_reasons, reasons, cancel_by_vehicle>>

\* the else branch of `if df is not None` (lines 575-579)
ErrorState ==
    /\ pc = "error_state"
    /\ messages' = messages \o <<"Unable to load data. Please check the configuration.">>
    /\ pc' = "done"
    /\ UNCHANGED <<file, df, date_range, selected_vehicles, status_filter, filtered_df,
                   total_rev, avg_order_value, total_rides, completion_rate, avg_vtat,
                   daily_data, veh_metrics, heatmap_pivot, hourly_profile,
                   weekend_data, all_reasons, reasons, cancel_by_vehicle>>

\* the sidebar widgets return the user's selection and the mask is applied
ApplyFilters ==
    /\ pc = "sidebar"
    /\ \E lo \in min_date(df.rows)..max_date(df.rows),
          hi \in min_date(df.rows)..max_date(df.rows),
          vehicles \in SUBSET vehicle_types(df.rows),
          statuses \in SUBSET booking_statuses(df.rows) :
          /\ lo <= hi
          /\ date_range' = <<lo, hi>>
          /\ selected_vehicles' = vehicles
          /\ status_filter' = statuses
          /\ filtered_df' = apply_mask(df.rows, <<lo, hi>>, vehicles, statuses)
    /\ pc' = "kpi"
    /\ UNCHANGED <<file, df, messages,
                   total_rev, avg_order_value, total_rides, completion_rate, avg_vtat,
                   daily_data, veh_metrics, heatmap_pivot, hourly_profile,
                   weekend_data, all_reasons, reasons, cancel_by_vehicle>>

KPISection ==
    /\ pc = "kpi"
    /\ total_rev' = kpi_total_rev(filtered_df)
    /\ avg_order_value' = kpi_avg_order_value(filtered_df)
    /\ total_rides' = kpi_total_rides(filtered_df)
    /\ completion_rate' = kpi_completion_rate(filtered_df)
    /\ avg_vtat' = kpi_avg_vtat(filtered_df)
    /\ pc' = "tab1"
    /\ UNCHANGED <<file, df, messages, date_range, selected_vehicles, status_filter,
                   filtered_df, daily_data, veh_metrics, heatmap_pivot, hourly_profile,
                   weekend_data, all_reasons, reasons, cancel_by_vehicle>>

Tab1 ==
    /\ pc = "tab1"
    /\ daily_data' = make_daily_data(filtered_df)
    /\ veh_metrics' = make_veh_metrics(filtered_df)
    /\ pc' = "tab2"
    /\ UNCHANGED <<file, df, messages, date_range, selected_vehicles, status_filter,
                   filtered_df, total_rev, avg_order_value, total_rides, completion_rate,
                   avg_vtat, heatmap_pivot, hourly_profile, weekend_data, all_reasons,
                   reasons, cancel_by_vehicle>>

Tab2 ==
    /\ pc = "tab2"
    /\ heatmap_pivot' = make_heatmap_pivot(filtered_df)
    /\ hourly_profile' = make_hourly_profile(filtered_df)
    /\ weekend_data' = make_weekend_data(filtered_df)
    /\ pc' = "tab3"
    /\ UNCHANGED <<file, df, messages, date_range, selected_vehicles, status_filter,
                   filtered_df, total_rev, avg_order_value, total_rides, completion_rate,
                   avg_vtat, daily_data, veh_metrics, all_reasons, reasons,
                   cancel_by_vehicle>>

Tab3 ==
    /\ pc = "tab3"
    /\ all_reasons' = make_all_reasons(filtered_df)
    /\ reasons' = make_reasons(filtered_df)
    /\ cancel_by_vehicle' = make_cancel_by_vehicle(filtered_df)
    /\ pc' = "done"
    /\ UNCHANGED <<file, df, messages, date_range, selected_vehicles, status_filter,
                   filtered_df, total_rev, avg_order_value, total_rides, completion_rate,
                   avg_vtat, daily_data, veh_metrics, heatmap_pivot, hourly_profile,
                   weekend_data>>

ScriptStart ==
    /\ pc = "load"
    /\ df = Unset
    /\ messages = <<>>
    /\ date_range = Unset
    /\ selected_vehicles = Unset
    /\ status_filter = Unset
    /\ filtered_df = Unset
    /\ total_rev = Unset
    /\ avg_order_value = Unset
    /\ total_rides = Unset
    /\ completion_rate = Unset
    /\ avg_vtat = Unset
    /\ daily_data = Unset
    /\ veh_metrics = Unset
    /\ heatmap_pivot = Unset
    /\ hourly_profile = Unset
    /\ weekend_data = Unset
    /\ all_reasons = Unset
    /\ reasons = Unset
    /\ cancel_by_vehicle = Unset

\* an interaction with a widget: the script runs again from the top
Rerun ==
    /\ pc = "done"
    /\ pc' = "load"
    /\ messages' = <<>>
    /\ df' = Unset
    /\ date_range' = Unset
    /\ selected_vehicles' = Unset
    /\ status_filter' = Unset
    /\ filtered_df' = Unset
    /\ total_rev' = Unset
    /\ avg_order_value' = Unset
    /\ total_rides' = Unset
    /\ completion_rate' = Unset
    /\ avg_vtat' = Unset
    /\ daily_data' = Unset
    /\ veh_metrics' = Unset
    /\ heatmap_pivot' = Unset
    /\ hourly_profile' = Unset
    /\ weekend_data' = Unset
    /\ all_reasons' = Unset
    /\ reasons' = Unset
    /\ cancel_by_vehicle' = Unset
    /\ UNCHANGED file

Next ==
    \/ LoadData
    \/ ErrorState
    \/ ApplyFilters
    \/ KPISection
    \/ Tab1
    \/ Tab2
    \/ Tab3
    \/ Rerun

(***************************************************************************)
(* The csv files the runs start from.  The date_input widget needs a       *)
(* minimum and a maximum date, so a csv that exists holds at least one row *)
(* with a date that parses.                                                *)
(***************************************************************************)
RawRow(id, date, time, veh, status, value, rc, rd) ==
    [BookingID |-> id, Date |-> date, Time |-> time, VehicleType |-> veh,
     BookingStatus |-> status, BookingValue |-> value, AvgVTAT |-> NumCell(5),
     ReasonCustomer |-> rc, DriverReason |-> rd]

SeqsUpTo(S, n) == UNION {[1..k -> S] : k \in 1..n}
HasDate(rows) == \E i \in 1..Len(rows) : to_datetime(rows[i].Date) # NaT
Files(datasets) ==
    {[exists |-> FALSE, rows |-> <<>>]}
    \cup {[exists |-> TRUE, rows |-> d] : d \in {x \in datasets : HasDate(x)}}

\* rows that differ in what the mask reads
FilterRows ==
    {RawRow("CNR1", d, TimeCell(8), v, s, NumCell(10), "", "") :
        d \in {DateCell(1), DateCell(2), "not-a-date"},
        v \in {"Auto", "Go Mini", ""},
        s \in {"Completed", "Cancelled by Driver"}}

Init == ScriptStart /\ file \in Files(SeqsUpTo(FilterRows, MaxRows))
Spec == Init /\ [][Next]_vars

\* rows that differ in vehicle type and booking value
RevenueRows ==
    {RawRow("CNR1", d, TimeCell(8), v, "Completed", b, "", "") :
        d \in {DateCell(1), "not-a-date"},
        v \in {"Auto", "Go Mini", ""},
        b \in {NumCell(10), NumCell(15), "abc"}}

InitRevenue == ScriptStart /\ file \in Files(SeqsUpTo(RevenueRows, MaxRows))
SpecRevenue == InitRevenue /\ [][Next]_vars

\* rows that differ in day of week and time of day
PatternRows ==
    {RawRow("CNR1", d, t, "Auto", "Completed", NumCell(10), "", "") :
        d \in {DateCell(5), DateCell(6)},
        t \in {TimeCell(8), TimeCell(17), "late"}}

InitPatterns == ScriptStart /\ file \in Files(SeqsUpTo(PatternRows, MaxRows))
SpecPatterns == InitPatterns /\ [][Next]_vars

\* rows that differ in booking id, vehicle type and status
CancelRateRows ==
    {RawRow(id, DateCell(1), TimeCell(8), v, s, NumCell(10), "", "") :
        id \in {"CNR1", ""},
        v \in {"Auto", "Go Mini"},
        s \in {"Completed", "Cancelled by Customer", "cancelled"}}

InitCancelRate == ScriptStart /\ file \in Files(SeqsUpTo(CancelRateRows, MaxRows))
SpecCancelRate == InitCancelRate /\ [][Next]_vars

\* the rows of day d of the daily-series data sets: every third day has two rows
DayRows(d) ==
    <<RawRow("CNR1", DateCell(d), TimeCell(8), "Auto", "Completed",
             NumCell((d * 7) % 11), "", "")>>
    \o (IF d % 3 = 0
        THEN <<RawRow("CNR2", DateCell(d), TimeCell(17), "Auto", "Completed",
                      NumCell(d), "", "")>>
        ELSE <<>>)

RECURSIVE DailyRows(_)
\* the rows of a set of days, latest day first
DailyRows(days) ==
    IF days = {} THEN <<>>
    ELSE LET m == CHOOSE d \in days : \A e \in days : d >= e
         IN DayRows(m) \o DailyRows(days \ {m})

InitDaily == ScriptStart /\ file \in Files({DailyRows(days) : days \in SUBSET (1..MaxDays)})
SpecDaily == InitDaily /\ [][Next]_vars

Reason(i) == "Reason " \o ToString(i)

\* what row i of a cancellation-reason data set may be
ReasonRows(i) ==
    {RawRow("CNR1", DateCell(1), TimeCell(8), "Auto", "Cancelled by Customer", NumCell(10),
            Reason(2 * i - 1), Reason(2 * i)),
     RawRow("CNR1", DateCell(1), TimeCell(8), "Auto", "Cancelled by Customer", NumCell(10),
            Reason(1), ""),
     RawRow("CNR1", DateCell(1), TimeCell(8), "Auto", "Cancelled by Customer", NumCell(10),
            Reason(2 * i - 1), Reason(1)),
     RawRow("CNR1", DateCell(1), TimeCell(8), "Auto", "Completed", NumCell(10),
            Reason(1), Reason(2))}

RECURSIVE ReasonSeqs(_)
\* the data sets of k rows
ReasonSeqs(k) ==
    IF k = 0 THEN {<<>>}
    ELSE {Append(x, r) : x \in ReasonSeqs(k - 1), r \in ReasonRows(k)}

ReasonDatasets == UNION {ReasonSeqs(k) : k \in 1..MaxReasonRows}

InitReasons == ScriptStart /\ file \in Files(ReasonDatasets)
SpecReasons == InitReasons /\ [][Next]_vars

(***************************************************************************)
(* Properties.                                                             *)
(***************************************************************************)
\* the mask has been applied in this run
Filtered == file.exists /\ pc \in {"kpi", "tab1", "tab2", "tab3", "done"}
\* the run has computed every view
Rendered == file.exists /\ pc = "done"

Indices(s) == 1..Len(s)
RECURSIVE SumOver(_, _)
\* the sum of f over the indices in S
SumOver(f, S) ==
    IF S = {} THEN 0
    ELSE LET i == CHOOSE i \in S : TRUE IN f[i] + SumOver(f, S \ {i})
\* a booking value as a summand: a missing value adds nothing
Amount(r) == IF r.BookingValue = NaN THEN 0 ELSE r.BookingValue

\* C1: the filter step keeps exactly the records whose date is not missing and
\* lies in [date_lo, date_hi], whose vehicle type is allowed and whose status is
\* allowed, each once and in frame order; no record with a missing date is kept,
\* and an empty allow-set gives an empty result.
C1_FilterExact ==
    Filtered =>
        /\ \A i \in Indices(df.rows) :
              (\E j \in Indices(filtered_df) : filtered_df[j] = df.rows[i])
              <=> /\ df.rows[i].Date # NaT
                  /\ date_range[1] <= df.rows[i].Date
                  /\ df.rows[i].Date <= date_range[2]
                  /\ df.rows[i].VehicleType \in selected_vehicles
                  /\ df.rows[i].BookingStatus \in status_filter
        /\ \A j \in Indices(filtered_df) :
              /\ filtered_df[j] = df.rows[filtered_df[j].idx]
              /\ filtered_df[j].Date # NaT
              /\ j > 1 => filtered_df[j - 1].idx < filtered_df[j].idx
        /\ (selected_vehicles = {} \/ status_filter = {}) => filtered_df = <<>>

\* C1 witness: of two records, the one on the last day of the range is kept
\* and the one with a missing date is not.
C1_Witness ==
    /\ Filtered
    /\ Len(df.rows) = 2
    /\ Len(filtered_df) = 1
    /\ filtered_df[1].Date = date_range[2]
    /\ \E i \in Indices(df.rows) : df.rows[i].Date = NaT

\* C6: when the csv is missing, load_data ends with None (never a DataFrame)
\* and a reported error, and neither the mask nor any aggregation runs in that
\* run; when the csv is there, the result is a DataFrame.
C6_LoadFailure ==
    /\ (~file.exists /\ pc # "load") =>
          /\ df.tag = "None"
          /\ Len(messages) >= 1
          /\ messages[1] = "File not found: ncr_ride_bookings.csv"
          /\ pc \in {"error_state", "done"}
          /\ \A v \in {date_range, selected_vehicles, status_filter, filtered_df,
                        total_rev, avg_order_value, total_rides, completion_rate,
                        avg_vtat, daily_data, veh_metrics, heatmap_pivot,
                        hourly_profile, weekend_data, all_reasons, reasons,
                        cancel_by_vehicle} : v = Unset
    /\ (file.exists /\ pc # "load") => df.tag = "DataFrame"

\* C6 witness: a run on a missing csv has ended in the error state.
C6_Witness == ~file.exists /\ pc = "done" /\ Len(messages) = 3

\* C7 as stated: over an empty filtered set every view is an empty table and
\* every top-line scalar, the two means included, is zero.
C7_AllZero ==
    (Rendered /\ filtered_df = <<>>) =>
        /\ total_rev = 0
        /\ total_rides = 0
        /\ FEq(completion_rate, Frac(0, 1))
        /\ FEq(avg_order_value, Frac(0, 1))
        /\ FEq(avg_vtat, Frac(0, 1))

\* C7 amended: over an empty filtered set every view is computed and is an
\* empty table, total revenue, record count and completion rate are zero, and
\* the mean booking value and the mean VTAT are NaN.
C7_EmptyInput ==
    (Rendered /\ filtered_df = <<>>) =>
        /\ total_rev = 0
        /\ total_rides = 0
        /\ FEq(completion_rate, Frac(0, 1))
        /\ avg_order_value.kind = "nan"
        /\ avg_vtat.kind = "nan"
        /\ daily_data = <<>>
        /\ veh_metrics = <<>>
        /\ heatmap_pivot.index = day_order
        /\ heatmap_pivot.columns = <<>>
        /\ \A i \in Indices(day_order) : heatmap_pivot.values[i] = <<>>
        /\ hourly_profile = <<>>
        /\ weekend_data = <<>>
        /\ all_reasons = <<>>
        /\ reasons = <<>>
        /\ cancel_by_vehicle = {}

\* C7 witness: a run over a frame with records ended with an empty filtered set
\* because the status allow-set is empty.
C7_Witness ==
    /\ Rendered
    /\ filtered_df = <<>>
    /\ status_filter = {}
    /\ selected_vehicles # {}
    /\ Len(df.rows) = 2

\* C4: the revenues of the rows of the vehicle-type mix add up to the total
\* revenue, which is the sum of the booking values of the filtered records that
\* are not missing; every filtered record is in exactly one group.
C4_RevenueConserved ==
    (file.exists /\ pc \in {"tab2", "tab3", "done"}) =>
        /\ SumOver([i \in Indices(veh_metrics) |-> veh_metrics[i].Revenue],
                   Indices(veh_metrics)) = total_rev
        /\ total_rev = SumOver([j \in Indices(filtered_df) |-> Amount(filtered_df[j])],
                               Indices(filtered_df))
        /\ \A j \in Indices(filtered_df) :
              Cardinality({i \in Indices(veh_metrics) :
                  veh_metrics[i].VehicleType = filtered_df[j].VehicleType}) = 1

\* C4 witness: the mix has two vehicle types with different revenues.
C4_Witness ==
    /\ Rendered
    /\ Len(veh_metrics) = 2
    /\ veh_metrics[1].Revenue > 0
    /\ veh_metrics[1].Revenue < veh_metrics[2].Revenue
    /\ total_rev = 25

\* C5: the daily series has one row for each distinct date of the filtered set
\* and no other, dates ascending; the revenue of a row is the sum of that day's
\* booking values, and the rolling value at position i is the mean of the
\* revenues at positions max(1, i-6)..i, so the first is the first day's revenue.
C5_DailySeries ==
    (file.exists /\ pc \in {"tab2", "tab3", "done"}) =>
        LET days == {filtered_df[j].Date : j \in Indices(filtered_df)}
            revenue == [i \in Indices(daily_data) |-> daily_data[i].Revenue]
        IN /\ Len(daily_data) = Cardinality(days)
           /\ \A i \in Indices(daily_data) :
                 LET first == IF i - 6 < 1 THEN 1 ELSE i - 6
                     on_day == {j \in Indices(filtered_df) :
                                   filtered_df[j].Date = daily_data[i].Date}
                 IN /\ daily_data[i].Date \in days
                    /\ i > 1 => daily_data[i - 1].Date < daily_data[i].Date
                    /\ daily_data[i].Revenue =
                           SumOver([j \in Indices(filtered_df) |-> Amount(filtered_df[j])],
                                   on_day)
                    /\ FEq(daily_data[i].Revenue_7d,
                           Frac(SumOver(revenue, first..i), i - first + 1))
           /\ daily_data # <<>> =>
                 FEq(daily_data[1].Revenue_7d, Frac(daily_data[1].Revenue, 1))

\* C5 witness: a series longer than the window, over dates with a gap, with a
\* day of two records.
C5_Witness ==
    /\ Rendered
    /\ Len(daily_data) = 8
    /\ Len(filtered_df) > 8
    /\ daily_data[8].Date - daily_data[1].Date > 7

\* the number of times x occurs in the sequence s
Occurrences(s, x) == Cardinality({i \in Indices(s) : s[i] = x})
\* the filtered records whose status contains "cancel"
CancelledRecords == {j \in Indices(filtered_df) : IsCancelled(filtered_df[j])}

\* C8: the top cancellation reasons are at most 8 distinct reasons with their
\* counts, the counts do not increase from first to last, and no reason left
\* out has a count greater than a reason that is in.
C8_TopReasons ==
    Rendered =>
        /\ Len(reasons) <= 8
        /\ \A i \in Indices(reasons) :
              /\ reasons[i].count = Occurrences(all_reasons, reasons[i].value)
              /\ reasons[i].count >= 1
              /\ \A k \in Indices(reasons) : reasons[k].value = reasons[i].value => k = i
              /\ i > 1 => reasons[i - 1].count >= reasons[i].count
        /\ \A n \in Indices(all_reasons) :
              (\A i \in Indices(reasons) : reasons[i].value # all_reasons[n])
              => /\ Len(reasons) = 8
                 /\ \A i \in Indices(reasons) :
                       Occurrences(all_reasons, all_reasons[n]) <= reasons[i].count

\* C8 witness: more than 8 distinct reasons were given, with different counts.
C8_Witness ==
    /\ Rendered
    /\ Cardinality({all_reasons[n] : n \in Indices(all_reasons)}) > 8
    /\ Len(reasons) = 8
    /\ reasons[1].count > reasons[8].count

RecordsAt(day, hour) ==
    {k \in Indices(filtered_df) :
        filtered_df[k].DayOfWeek = day /\ filtered_df[k].Hour = hour}
\* what a cell of the heatmap holds for n records: no record is the NaN marker
CellOf(n) == IF n = 0 THEN NaN ELSE n
\* the filtered records whose DateTime is not missing
Timed == {k \in Indices(filtered_df) : filtered_df[k].DateTime # NaT}

\* C9 as stated: the heatmap has the seven days Monday..Sunday as rows and the
\* hours 0..23 as columns whatever the data, and each cell counts its records.
C9_FullGrid ==
    Rendered =>
        /\ heatmap_pivot.index =
              <<"Monday", "Tuesday", "Wednesday", "Thursday", "Friday", "Saturday", "Sunday">>
        /\ heatmap_pivot.columns = [j \in 1..24 |-> j - 1]
        /\ \A i \in 1..7, j \in 1..24 :
              heatmap_pivot.values[i][j] =
                  CellOf(Cardinality(RecordsAt(heatmap_pivot.index[i], j - 1)))

\* C9 amended: the rows of the heatmap are the seven days Monday..Sunday
\* whatever the data; its columns are the hours that occur in the filtered
\* records, ascending; the cell of (day, hour) holds the number of filtered
\* records with that day and hour, or NaN if there is none.
C9_HeatmapGrid ==
    Rendered =>
        /\ heatmap_pivot.index =
              <<"Monday", "Tuesday", "Wednesday", "Thursday", "Friday", "Saturday", "Sunday">>
        /\ {heatmap_pivot.columns[j] : j \in Indices(heatmap_pivot.columns)} =
              {filtered_df[k].Hour : k \in Timed}
        /\ \A j \in Indices(heatmap_pivot.columns) :
              j > 1 => heatmap_pivot.columns[j - 1] < heatmap_pivot.columns[j]
        /\ \A i \in 1..7 :
              /\ Len(heatmap_pivot.values[i]) = Len(heatmap_pivot.columns)
              /\ \A j \in Indices(heatmap_pivot.columns) :
                    heatmap_pivot.values[i][j] =
                        CellOf(Cardinality(RecordsAt(heatmap_pivot.index[i],
                                                     heatmap_pivot.columns[j])))

\* C9 witness: records on a Friday and a Saturday at two hours: a cell with two
\* records or one, a cell with none in the row of a day that occurs.
C9_Witness ==
    /\ Rendered
    /\ heatmap_pivot.columns = <<8, 17>>
    /\ heatmap_pivot.values[5] = <<1, NaN>>
    /\ heatmap_pivot.values[6] = <<NaN, 1>>
    /\ heatmap_pivot.values[1] = <<NaN, NaN>>

\* C10: a filtered record with a missing DateTime is counted in the record
\* count, the total revenue, the vehicle-type mix and the cancellation rate, and
\* in no group of the heatmap, the hourly profile or the weekday / weekend
\* split: each of these three counts the records with a DateTime and no other.
C10_NullDatetimeExcluded ==
    Rendered =>
        /\ total_rides = Len(filtered_df)
        /\ total_rev = SumOver([j \in Indices(filtered_df) |-> Amount(filtered_df[j])],
                               Indices(filtered_df))
        /\ SumOver([i \in Indices(veh_metrics) |-> veh_metrics[i].Rides],
                   Indices(veh_metrics)) = Len(filtered_df)
        /\ \A row \in cancel_by_vehicle :
              row.Total = Cardinality({k \in Indices(filtered_df) :
                              filtered_df[k].VehicleType = row.VehicleType})
        /\ SumOver([i \in Indices(hourly_profile) |-> hourly_profile[i].Bookings],
                   Indices(hourly_profile)) = Cardinality(Timed)
        /\ \A i \in 1..7, j \in Indices(heatmap_pivot.columns) :
              heatmap_pivot.values[i][j] =
                  CellOf(Cardinality(RecordsAt(heatmap_pivot.index[i],
                                               heatmap_pivot.columns[j]) \cap Timed))
        /\ SumOver([i \in Indices(weekend_data) |-> weekend_data[i].BookingID],
                   Indices(weekend_data)) = Cardinality(Timed)

\* C2: every row of the cancellation-rate view has cancelled <= total and a
\* rate cancelled / total * 100 that is a number in [0, 100], 0 when total is 0;
\* no rate comes from a division by zero.
C2_RateInRange ==
    Rendered =>
        \A row \in cancel_by_vehicle :
            /\ row.Cancelled <= row.Total
            /\ row.Rate.kind = "num"
            /\ row.Rate.den > 0
            /\ 0 <= row.Rate.num
            /\ row.Rate.num <= 100 * row.Rate.den
            /\ row.Total = 0 => row.Rate.num = 0

====
